---- MODULE Spec2Model ----
(***************************************************************************)
(* State-machine model of the news MCP server (src/server.py): the tool    *)
(* dispatcher handle_call_tool and the handlers it routes to, with the     *)
(* news search API and the LLM completion API as nondeterministic          *)
(* environments.                                                           *)
(*                                                                         *)
(* Conventions.                                                            *)
(*  - A text whose characters matter (an article title) is a tuple of      *)
(*    one-character strings, so that _clean_html_tags is computed.         *)
(*  - A response text is the tuple of the fragments of the f-string or     *)
(*    literal that builds it; its first fragment is its literal prefix.    *)
(*    The Korean literals of the source are written in romanised form      *)
(*    ("oryu" for the source's word for "error").                          *)
(*  - An optional argument of a tool is a pair <<present, value>>.         *)
(*    include_links and include_keyword_curation only change the wording   *)
(*    of a report and are left at their defaults.                          *)
(*                                                                         *)
(* Specifications.                                                         *)
(*  - Spec: one invocation at a time, one after the other.                 *)
(*  - CleanSpec: _clean_html_tags applied to a text and to its own result. *)
(*  - Interleaved: several invocations at once, reduced to what they do    *)
(*    with the shared session.                                             *)
(***************************************************************************)
EXTENDS Integers, Sequences, FiniteSets, TLC

(***************************************************************************)
(* Bounds of the model                                                     *)
(***************************************************************************)
\* longest item list of one upstream response
MaxItems == 3
\* longest caller-supplied keyword list of generate_news_report
MaxKeywords == 4
\* longest caller-supplied keyword list of search_and_summarize_news
MaxSumKeywords == 3
\* longest item list of one upstream response to search_and_summarize_news
MaxSumItems == 2
\* longest text given to _clean_html_tags, in pieces (see Pieces)
MaxPieces == 3
\* how often _clean_html_tags is applied to its own result
MaxCleanings == 2
\* number of invocations that interleave on one server
MaxTasks == 2
\* most search GETs of one interleaved invocation
MaxTaskQueries == 2

(***************************************************************************)
(* Text cleaning: NewsMCPServer._clean_html_tags                           *)
(***************************************************************************)
RECURSIVE FirstGt(_, _)
\* index of the first ">" of s at or after position i, 0 when there is none
FirstGt(s, i) ==
    IF i > Len(s) THEN 0
    ELSE IF s[i] = ">" THEN i
    ELSE FirstGt(s, i + 1)

\* StripTags that removes the first tag only
StripFirstTag(s) ==
    LET starts == {i \in 1..Len(s) : s[i] = "<" /\ FirstGt(s, i + 1) > i + 1}
    IN  IF starts = {} THEN s
        ELSE LET i == CHOOSE i \in starts : \A j \in starts : i <= j
             IN  SubSeq(s, 1, i - 1) \o SubSeq(s, FirstGt(s, i + 1) + 1, Len(s))

RECURSIVE StripTags(_)
\* re.sub(r'<[^>]+>', '', text): leftmost non-overlapping matches of "<",
\* one or more characters other than ">", then ">"
StripTags(s) ==
    IF s = <<>> THEN <<>>
    ELSE IF s[1] = "<" /\ FirstGt(s, 2) > 2
         THEN StripTags(SubSeq(s, FirstGt(s, 2) + 1, Len(s)))
         ELSE <<s[1]>> \o StripTags(Tail(s))

RECURSIVE Replace(_, _, _)
\* str.replace(old, new): every non-overlapping occurrence, left to right
Replace(s, old, new) ==
    IF Len(s) < Len(old) THEN s
    ELSE IF SubSeq(s, 1, Len(old)) = old
         THEN new \o Replace(SubSeq(s, Len(old) + 1, Len(s)), old, new)
         ELSE <<s[1]>> \o Replace(Tail(s), old, new)

_clean_html_tags(text) ==
    LET t0 == StripTags(text)
        t1 == Replace(t0, <<"&", "q", "u", "o", "t", ";">>, <<"\"">>)
        t2 == Replace(t1, <<"&", "a", "m", "p", ";">>, <<"&">>)
        t3 == Replace(t2, <<"&", "l", "t", ";">>, <<"<">>)
        t4 == Replace(t3, <<"&", "g", "t", ";">>, <<">">>)
    IN  Replace(t4, <<"&", "a", "p", "o", "s", ";">>, <<"'">>)

(***************************************************************************)
(* Static data                                                             *)
(***************************************************************************)
\* NEWS_CATEGORIES: category id -> seed keywords (the Korean keywords are
\* written as English glosses; "IT", "AI" and "K-POP" are the source's own)
NEWS_CATEGORIES ==
    [politics      |-> <<"politics", "assembly", "president", "party", "election">>,
     economy       |-> <<"economy", "stocks", "realestate", "finance", "business">>,
     society       |-> <<"society", "incident", "accident", "education", "environment">>,
     culture       |-> <<"culture", "travel", "food", "health", "fashion">>,
     tech          |-> <<"IT", "science", "technology", "AI", "smartphone">>,
     world         |-> <<"international", "world", "usa", "china", "japan">>,
     sports        |-> <<"sports", "football", "baseball", "basketball", "olympics">>,
     entertainment |-> <<"entertainment", "drama", "movie", "K-POP", "idol">>]

ToolNames ==
    {"search_news", "get_category_news", "list_categories",
     "generate_news_report", "search_and_summarize_news"}

\* the tools whose handler searches
SearchingTools ==
    {"search_news", "get_category_news", "generate_news_report",
     "search_and_summarize_news"}

(***************************************************************************)
(* Inputs                                                                  *)
(***************************************************************************)
Absent(v) == <<FALSE, v>>
Given(v) == <<TRUE, v>>
\* the value a parameter is bound to: the caller's, or the signature's default
Bound(opt, default) == IF opt[1] THEN opt[2] ELSE default

\* caller-supplied integers: below, inside and above every documented range
DisplayInputs == {-1, 0, 7, 100, 101}
StartInputs == {-1, 7, 1000, 1001}
NumArticlesInputs == {-1, 101}
SortInputs == {"sim", "date", "rank"}
CategoryInputs == {"tech", "sports", "weather"}

OptOf(S, dflt) == {Absent(dflt)} \cup {Given(v) : v \in S}

\* the raw titles the upstream may return, as a feed that responses are
\* windows of: a title that is only a tag (it cleans to the empty title), a
\* title and its tagged form, a title that comes back tagged in a later window,
\* an entity
Feed ==
    << <<"<", "i", ">">>, <<"A">>, <<"<", "b", ">", "A">>,
       <<"B">>, <<"C">>, <<"D">>,
       <<"<", "b", ">", "B", "<", "/", "b", ">">>, <<"E">>, <<"&", "a", "m", "p", ";">>,
       <<"F">>, <<"G">>, <<"&">>, <<"H">> >>
FeedOffsets == {1, 4, 7}
Window(o, l) == SubSeq(Feed, o, o + l - 1)
Responses(maxLen) ==
    {<<>>} \cup {Window(o, l) : o \in FeedOffsets, l \in 1..maxLen}

\* what one search GET can end in: status 200 with a JSON body, another
\* status, an aiohttp.ClientError (connection reset, DNS, ContentTypeError of
\* response.json()), or an exception that is no ClientError
\* (asyncio.TimeoutError of the session's total timeout, json.JSONDecodeError
\* of response.json())
UncaughtErrors == {"TimeoutError", "JSONDecodeError"}

(***************************************************************************)
(* Response texts                                                          *)
(***************************************************************************)
TextContent(text) == [type |-> "text", text |-> text]

\* ErrorText with the handlers' own prefix instead of "Error: "
ErrorTextLocalised(e) == <<"oryu: ", e>>

\* handle_call_tool's  f"Error: {str(e)}"
ErrorText(e) == <<"Error: ", e>>
\* the missing-credentials literal of _search_news, _generate_news_report and
\* _search_and_summarize_news
CredentialsText ==
    <<"oryu: neibeo API jagyeok jeungmyeong-i seoljeongdoeji anasseumnida. ",
      "hwangyeong byeonsu news_client_id-wa news_client_secret-eul seoljeonghaejuseyo.">>
\* the missing-LLM-key literal of _search_and_summarize_news
ClaudeKeyText ==
    <<"oryu: Claude API kiga seoljeongdoeji anasseumnida. ",
      "hwangyeong byeonsu claude_api_key-reul seoljeonghaejuseyo.">>
ApiErrorText(status) == <<"API oryu (sangtae kodeu: ", status, "): ", "error_text">>
NetworkErrorText(e) == <<"neteuwokeu oryu: ", e>>
UnknownCategoryText(category) ==
    <<"oryu: al su eomneun kategori '", category, "'. sayong ganeunghan kategori: ">>
NoSearchResultsText(query) == <<"'", query, "'e daehan geomsaek gyeolgwaga eopsseumnida.">>
SearchResultsText(query) == <<"## '", query, "' nyuseu geomsaek gyeolgwa">>
CategoriesText == <<"## nyuseu kategori mongnok">>
NoArticlesText(topic) == <<"'", topic, "'e daehan nyuseu gisareul chajeul su eopsseumnida.">>
ReportText(topic) == <<"====", "# nyuseu riseochi repoteu: ", topic>>
NoNewsText == <<"geomsaekdoen nyuseuga eopsseumnida. kiwodeu: ">>
\* AddToGroups that opens a new group in front of the others
AddToGroupsFront(groups, item) ==
    IF \E g \in 1..Len(groups) : groups[g].keyword = item.keyword
    THEN [g \in 1..Len(groups) |->
            IF groups[g].keyword = item.keyword
            THEN [groups[g] EXCEPT !.items = Append(@, item)]
            ELSE groups[g]]
    ELSE <<[keyword |-> item.keyword, items |-> <<item>>]>> \o groups

\* _format_summary_result: one pass of "for item in original_news" over the
\* dict keywords_seen, which keeps its keys in the order they were inserted
AddToGroups(groups, item) ==
    IF \E g \in 1..Len(groups) : groups[g].keyword = item.keyword
    THEN [g \in 1..Len(groups) |->
            IF groups[g].keyword = item.keyword
            THEN [groups[g] EXCEPT !.items = Append(@, item)]
            ELSE groups[g]]
    ELSE Append(groups, [keyword |-> item.keyword, items |-> <<item>>])

RECURSIVE KeywordsSeen(_)
\* keywords_seen after the loop over original_news
KeywordsSeen(original_news) ==
    IF original_news = <<>> THEN <<>>
    ELSE AddToGroups(
             KeywordsSeen(SubSeq(original_news, 1, Len(original_news) - 1)),
             original_news[Len(original_news)])

\* the lines of the links section: "### <keyword>", "- [<title>](<link>)"
HeadingLine(keyword) == <<"### ", keyword>>
LinkLine(item) == <<"- [", item.title, "](", item.link, ")">>
BlankLine == <<"">>

RECURSIVE LinkLines(_)
\* "for keyword, items in keywords_seen.items()"
LinkLines(groups) ==
    IF groups = <<>> THEN <<>>
    ELSE <<HeadingLine(groups[1].keyword)>>
         \o [i \in 1..Len(groups[1].items) |-> LinkLine(groups[1].items[i])]
         \o <<BlankLine>>
         \o LinkLines(Tail(groups))

\* _format_summary_result: the title, and the lines of the links section
SummaryText(original_news) ==
    <<"====", "# AI nyuseu yoyak ripoteu", LinkLines(KeywordsSeen(original_news))>>
SummaryErrorText(e) == <<"yoyak saengseong jung oryuga balsaenghaesseumnida: ", e>>

StartsWith(text, prefix) == Len(text) > 0 /\ text[1] = prefix

(***************************************************************************)
(* State                                                                   *)
(***************************************************************************)
VARIABLES
    client_id,       \* self.client_id: None or the configured id
    client_secret,   \* self.client_secret
    claude_client,   \* self.claude_client: None or the client
    session,         \* self.session: 0 for None, else the number of the session
    pc,              \* where the one running invocation stands
    name,            \* handle_call_tool's name
    arguments,       \* handle_call_tool's arguments
    result,          \* the list handle_call_tool returned
    outcome,         \* history: how the invocation ended ("none" while it runs)
    gets,            \* the search GETs issued by the invocation, in order
    pending,         \* whether a GET or a completion request is in flight
    completions,     \* the completion requests sent by the invocation
    searches,        \* the calls of _search_news made by the invocation
    params,          \* _search_news: query, display, start, sort
    search_queries,  \* _generate_news_report: search_queries
    num_articles,    \* num_articles of the running handler (clamped)
    all_articles,    \* _generate_news_report: all_articles
    seen_titles,     \* _generate_news_report: seen_titles
    qi,              \* index of the query (keyword) the loop is at
    items,           \* items of the response being processed
    ii,              \* index of the item the inner loop is at
    built,           \* the articles handed to _build_report
    firstSeen,       \* history: <<title, query index, position>> of the first
                     \* occurrence of each title in a successful response
    anyItems,        \* history: some query succeeded with a non-empty item list
    keywords,        \* _search_and_summarize_news: keywords
    all_news_data,   \* _search_and_summarize_news: all_news_data
    raw,             \* the text a run of cleanings started from
    given_text,      \* _clean_html_tags: the argument of the latest call
    clean_text,      \* _clean_html_tags: what the latest call returned
    cleanings,       \* the number of calls of _clean_html_tags made on raw
    tasks,           \* the invocations in progress when several interleave
    used             \* history: the sessions the interleaved GETs went out on

vars ==
    <<client_id, client_secret, claude_client, session, pc, name, arguments,
      result, outcome, gets, pending, completions, searches, params, search_queries,
      num_articles, all_articles, seen_titles, qi, items, ii, built, firstSeen,
      anyItems, keywords, all_news_data, raw, given_text, clean_text, cleanings,
      tasks, used>>

config == <<client_id, client_secret, claude_client>>
ret == <<result, outcome>>
reportLocals ==
    <<search_queries, all_articles, seen_titles, items, ii, built, firstSeen, anyItems>>
summaryLocals == <<keywords, all_news_data>>
cleaning == <<raw, given_text, clean_text, cleanings>>
interleaving == <<tasks, used>>
\* what a step of the one running invocation leaves alone
aside == <<cleaning, interleaving>>

None == "None"
Falsy(v) == v = None \/ v = ""
NoParams == [query |-> "", display |-> 0, start |-> 0, sort |-> ""]
NoArguments == [unexpected |-> FALSE]

\* the locals of an invocation before it starts
Fresh ==
    /\ name = None /\ arguments = NoArguments /\ result = <<>> /\ outcome = "none"
    /\ gets = <<>> /\ pending = FALSE /\ completions = 0 /\ searches = <<>>
    /\ params = NoParams
    /\ search_queries = <<>> /\ num_articles = 0 /\ all_articles = <<>>
    /\ seen_titles = {} /\ qi = 0 /\ items = <<>> /\ ii = 0 /\ built = <<>>
    /\ firstSeen = {} /\ anyItems = FALSE
    /\ keywords = <<>> /\ all_news_data = <<>>

\* nothing is being cleaned
NoCleaning == raw = <<>> /\ given_text = <<>> /\ clean_text = <<>> /\ cleanings = 0

Tasks == 1..MaxTasks
IdleTask == [pc |-> "idle", name |-> None, left |-> 0]
\* no invocations interleave
NoTasks == tasks = [t \in Tasks |-> IdleTask] /\ used = {}

\* NewsMCPServer.__init__: the credentials are whatever the environment
\* holds, and there is no session yet
__init__ ==
    /\ client_id \in {None, "client-id"}
    /\ client_secret \in {None, "client-secret"}
    /\ claude_client \in {None, "anthropic"}
    /\ session = 0

Init ==
    /\ __init__
    /\ pc = "idle"
    /\ Fresh
    /\ NoCleaning
    /\ NoTasks

(***************************************************************************)
(* Tool arguments                                                          *)
(***************************************************************************)
SearchNewsArgs ==
    {[query |-> q, display |-> d, start |-> s, sort |-> so, unexpected |-> FALSE] :
        q \in {Given("AI")}, d \in OptOf(DisplayInputs, 0),
        s \in OptOf(StartInputs, 0), so \in OptOf(SortInputs, "")}
    \cup {[query |-> Absent(""), display |-> Absent(0), start |-> Absent(0),
           sort |-> Absent(""), unexpected |-> u] : u \in BOOLEAN}

CategoryNewsArgs ==
    {[category |-> c, display |-> d, sort |-> so, unexpected |-> FALSE] :
        c \in {Given(x) : x \in CategoryInputs}, d \in OptOf(DisplayInputs, 0),
        so \in OptOf(SortInputs, "")}
    \cup {[category |-> Absent(""), display |-> Absent(0), sort |-> Absent(""),
           unexpected |-> FALSE]}

\* the caller's extra keywords of generate_news_report: prefixes of a pool
\* whose second entry repeats the topic
KeywordPool == <<"chip", "AI", "robot", "cloud", "data", "gpu", "edge">>
Take(s, n) == SubSeq(s, 1, IF n < Len(s) THEN n ELSE Len(s))

ReportArgs ==
    {[topic |-> Given("AI"), keywords |-> k, num_articles |-> n, unexpected |-> FALSE] :
        k \in {Absent(<<>>)} \cup {Given(Take(KeywordPool, l)) : l \in 0..MaxKeywords},
        n \in OptOf(NumArticlesInputs, 0)}
    \cup {[topic |-> Absent(""), keywords |-> Absent(<<>>), num_articles |-> Absent(0),
           unexpected |-> FALSE]}

\* the caller's keywords of search_and_summarize_news: prefixes of a pool in
\* which a keyword comes back
SummaryKeywordPool == <<"AI", "chip", "AI", "robot", "cloud", "data", "gpu", "edge">>

SummaryArgs ==
    {[keywords |-> Given(Take(SummaryKeywordPool, l)), num_articles |-> n,
      unexpected |-> FALSE] :
        l \in 0..MaxSumKeywords, n \in OptOf(NumArticlesInputs, 0)}
    \cup {[keywords |-> Absent(<<>>), num_articles |-> Absent(0), unexpected |-> FALSE]}

ArgumentsOf(n) ==
    CASE n = "search_news" -> SearchNewsArgs
      [] n = "get_category_news" -> CategoryNewsArgs
      [] n = "generate_news_report" -> ReportArgs
      [] n = "search_and_summarize_news" -> SummaryArgs
      [] OTHER -> {NoArguments, [unexpected |-> TRUE]}

(***************************************************************************)
(* handle_call_tool                                                        *)
(***************************************************************************)
\* CredentialsOk that forgets the client secret
CredentialsOkIdOnly == ~Falsy(client_id)

CredentialsOk == ~Falsy(client_id) /\ ~Falsy(client_secret)

\* the handler returns the one-item list [TextContent(text)]; kind records
\* which return statement it was
Returns(kind, text) ==
    /\ result' = <<TextContent(text)>>
    /\ outcome' = kind
    /\ pc' = "done"

\* Raises without an except clause: the exception leaves handle_call_tool
RaisesUncaught(e) ==
    /\ pc' = "crashed"
    /\ UNCHANGED ret

\* an exception leaves the handler: handle_call_tool's except clause
Raises(e) == Returns("Raised", ErrorText(e))

\* EnsureSession without the test: every call makes a new session
EnsureSessionAlways == session' = session + 1

\* _ensure_session: sessions are numbered in the order they are made
EnsureSession == session' = IF session = 0 THEN 1 ELSE session

\* **arguments binds: every required parameter given, no unexpected keyword
Binds(n, a) ==
    /\ ~a.unexpected
    /\ CASE n = "search_news" -> a.query[1]
         [] n = "get_category_news" -> a.category[1]
         [] n = "generate_news_report" -> a.topic[1]
         [] n = "search_and_summarize_news" -> a.keywords[1]
         [] OTHER -> TRUE

handle_call_tool(n, a) ==
    /\ pc = "idle"
    /\ name' = n
    /\ arguments' = a
    /\ UNCHANGED <<config, aside, session, gets, pending, completions,
                   num_articles, qi, reportLocals, summaryLocals>>
    /\ \/ /\ n \notin ToolNames
          /\ Raises("Unknown tool: ")
          /\ UNCHANGED <<params, searches>>
       \/ /\ n = "list_categories"
          /\ Returns("ok", CategoriesText)
          /\ UNCHANGED <<params, searches>>
       \/ /\ n \in ToolNames \ {"list_categories"}
          /\ ~Binds(n, a)
          /\ Raises("TypeError")
          /\ UNCHANGED <<params, searches>>
       \/ /\ n = "search_news"
          /\ Binds(n, a)
          /\ params' = [query |-> a.query[2], display |-> Bound(a.display, 10),
                        start |-> Bound(a.start, 1), sort |-> Bound(a.sort, "sim")]
          /\ searches' = Append(searches, params')
          /\ pc' = "search_news"
          /\ UNCHANGED ret
       \/ /\ n = "get_category_news"
          /\ Binds(n, a)
          /\ pc' = "get_category_news"
          /\ UNCHANGED <<params, searches, ret>>
       \/ /\ n \in {"generate_news_report", "search_and_summarize_news"}
          /\ Binds(n, a)
          /\ pc' = n
          /\ UNCHANGED <<params, searches, ret>>

(***************************************************************************)
(* _get_category_news                                                      *)
(***************************************************************************)
\* CategoryQuery that takes the second seed keyword
CategoryQuerySecond(category) == NEWS_CATEGORIES[category][2]

\* the query _get_category_news searches for
CategoryQuery(category) == NEWS_CATEGORIES[category][1]
\* the sort _get_category_news passes when the caller gives none
CategoryDefaultSort == "date"

_get_category_news ==
    /\ pc = "get_category_news"
    /\ UNCHANGED <<config, aside, session, name, arguments, gets, pending, completions,
                   num_articles, qi, reportLocals, summaryLocals>>
    /\ LET category == arguments.category[2] IN
       \/ /\ category \notin DOMAIN NEWS_CATEGORIES
          /\ Returns("UnknownCategory", UnknownCategoryText(category))
          /\ UNCHANGED <<params, searches>>
       \/ /\ category \in DOMAIN NEWS_CATEGORIES
          /\ params' = [query |-> CategoryQuery(category),
                        display |-> Bound(arguments.display, 10),
                        start |-> 1,
                        sort |-> Bound(arguments.sort, CategoryDefaultSort)]
          /\ searches' = Append(searches, params')
          /\ pc' = "search_news"
          /\ UNCHANGED ret

(***************************************************************************)
(* _search_news                                                            *)
(***************************************************************************)
\* Clamp without the upper limit
ClampBelowOnly(v, lo, hi) == IF lo > v THEN lo ELSE v

\* max(lo, min(v, hi))
Clamp(v, lo, hi) ==
    LET m == IF v < hi THEN v ELSE hi
    IN  IF lo > m THEN lo ELSE m

\* the parameters of the GET _search_news issues for its arguments
SearchParams(p) ==
    [query |-> p.query,
     display |-> Clamp(p.display, 1, 100),
     start |-> Clamp(p.start, 1, 1000),
     sort |-> IF p.sort \notin {"sim", "date"} THEN "sim" ELSE p.sort]

\* session.get(NAVER_API_BASE_URL, headers, params) on the shared session
Get(p) ==
    /\ gets' = Append(gets, [session |-> session'] @@ p)
    /\ pending' = TRUE

_search_news ==
    /\ pc = "search_news"
    /\ EnsureSession
    /\ UNCHANGED <<config, aside, name, arguments, completions, searches,
                   num_articles, qi, reportLocals, summaryLocals>>
    /\ \/ /\ ~CredentialsOk
          /\ Returns("MissingCredentials", CredentialsText)
          /\ UNCHANGED <<params, gets, pending>>
       \/ /\ CredentialsOk
          /\ params' = SearchParams(params)
          /\ Get(params')
          /\ pc' = "search_await"
          /\ UNCHANGED ret

_search_news_response ==
    /\ pc = "search_await"
    /\ pending' = FALSE
    /\ UNCHANGED <<config, aside, session, name, arguments, gets, completions, searches,
                   params, num_articles, qi, reportLocals, summaryLocals>>
    /\ \/ Returns("UpstreamStatus", ApiErrorText("status"))
       \/ Returns("ClientError", NetworkErrorText("ClientError"))
       \/ \E e \in UncaughtErrors : Raises(e)
       \/ \E data \in Responses(MaxItems) :
             IF data = <<>>
             THEN Returns("NoResults", NoSearchResultsText(params.query))
             ELSE Returns("ok", SearchResultsText(params.query))

(***************************************************************************)
(* _generate_news_report                                                   *)
(***************************************************************************)
\* SearchQueries that takes every extra keyword
SearchQueriesAll(topic, kw) == <<topic>> \o kw

\* search_queries = [topic] + keywords[:3]
SearchQueries(topic, kw) == <<topic>> \o (IF kw /= <<>> THEN Take(kw, 3) ELSE <<>>)

\* articles_per_query = max(5, num_articles // len(search_queries))
ArticlesPerQuery(n, queries) ==
    LET d == n \div Len(queries) IN IF d > 5 THEN d ELSE 5

\* the parameters of the GET issued for one query of the report
ReportParams(query, n, queries) ==
    [query |-> query,
     display |-> IF ArticlesPerQuery(n, queries) < 100
                 THEN ArticlesPerQuery(n, queries) ELSE 100,
     start |-> 1,
     sort |-> "date"]

\* Keeps without the seen_titles test
KeepsEveryTitle(title, seen) == title /= <<>>

\* "if title and title not in seen_titles"
Keeps(title, seen) == title /= <<>> /\ title \notin seen

\* Collect that puts the new article first
CollectFirst(articles, title, query) ==
    <<[title |-> title, search_query |-> query]>> \o articles

\* all_articles.append({"title": title, ..., "search_query": query})
Collect(articles, title, query) ==
    Append(articles, [title |-> title, search_query |-> query])

\* Truncate that keeps everything
TruncateNothing(articles, n) == articles

\* all_articles[:num_articles]
Truncate(articles, n) == Take(articles, n)

\* history: the titles a successful response brings for the first time, each
\* with the index of the query and its first position in the response
FirstOccurrences(data, q, known) ==
    {<<_clean_html_tags(data[p]), q, p>> : p \in
        {p \in 1..Len(data) :
            /\ _clean_html_tags(data[p]) /= <<>>
            /\ \A f \in known : f[1] /= _clean_html_tags(data[p])
            /\ \A p2 \in 1..(p - 1) :
                  _clean_html_tags(data[p2]) /= _clean_html_tags(data[p])}}

_generate_news_report ==
    /\ pc = "generate_news_report"
    /\ EnsureSession
    /\ UNCHANGED <<config, aside, name, arguments, gets, pending, completions, searches,
                   params, all_articles, seen_titles, items, ii, built, firstSeen,
                   anyItems, summaryLocals>>
    /\ \/ /\ ~CredentialsOk
          /\ Returns("MissingCredentials", CredentialsText)
          /\ UNCHANGED <<num_articles, search_queries, qi>>
       \/ /\ CredentialsOk
          /\ num_articles' = Clamp(Bound(arguments.num_articles, 15), 5, 50)
          /\ search_queries' = SearchQueries(arguments.topic[2], arguments.keywords[2])
          /\ qi' = 1
          /\ pc' = "report_loop"
          /\ UNCHANGED ret

\* the loop's next query: session.get
_generate_news_report_get ==
    /\ pc = "report_loop"
    /\ qi <= Len(search_queries)
    /\ UNCHANGED <<config, aside, session, name, arguments, ret, completions, searches,
                   params, num_articles, qi, reportLocals, summaryLocals>>
    /\ Get(ReportParams(search_queries[qi], num_articles, search_queries))
    /\ pc' = "report_await"

\* the loop goes on to the next query
NextQuery ==
    /\ qi' = qi + 1
    /\ pc' = "report_loop"

_generate_news_report_response ==
    /\ pc = "report_await"
    /\ pending' = FALSE
    /\ UNCHANGED <<config, aside, session, name, arguments, gets, completions, searches,
                   params, num_articles, search_queries, all_articles, seen_titles,
                   built, summaryLocals>>
    /\ \/ \* response.status != 200: nothing is collected
          /\ NextQuery
          /\ UNCHANGED <<ret, items, ii, firstSeen, anyItems>>
       \/ \* except aiohttp.ClientError: logged, continue
          /\ NextQuery
          /\ UNCHANGED <<ret, items, ii, firstSeen, anyItems>>
       \/ \* an exception that is no ClientError leaves the loop and the handler
          /\ \E e \in UncaughtErrors : Raises(e)
          /\ UNCHANGED <<qi, items, ii, firstSeen, anyItems>>
       \/ \* status 200: items = data.get("items", [])
          \E data \in Responses(MaxItems) :
             /\ firstSeen' = firstSeen \cup FirstOccurrences(data, qi, firstSeen)
             /\ anyItems' = (anyItems \/ data /= <<>>)
             /\ UNCHANGED ret
             /\ IF data = <<>>
                THEN NextQuery /\ UNCHANGED <<items, ii>>
                ELSE /\ items' = data
                     /\ ii' = 1
                     /\ pc' = "report_items"
                     /\ UNCHANGED qi

\* one pass of "for item in items"
_generate_news_report_item ==
    /\ pc = "report_items"
    /\ LET title == _clean_html_tags(items[ii]) IN
       IF Keeps(title, seen_titles)
       THEN /\ seen_titles' = seen_titles \cup {title}
            /\ all_articles' = Collect(all_articles, title, search_queries[qi])
       ELSE UNCHANGED <<seen_titles, all_articles>>
    /\ IF ii < Len(items)
       THEN /\ ii' = ii + 1
            /\ UNCHANGED <<pc, qi, items>>
       ELSE /\ ii' = 0
            /\ items' = <<>>
            /\ NextQuery
    /\ UNCHANGED <<config, aside, session, name, arguments, ret, gets, pending,
                   completions, searches, params, num_articles, search_queries,
                   built, firstSeen, anyItems, summaryLocals>>

\* after the loop
_generate_news_report_finish ==
    /\ pc = "report_loop"
    /\ qi > Len(search_queries)
    /\ UNCHANGED <<config, aside, session, name, arguments, gets, pending, completions,
                   searches, params, num_articles, qi, search_queries, seen_titles,
                   items, ii, firstSeen, anyItems, summaryLocals>>
    /\ \/ /\ all_articles = <<>>
          /\ Returns("NoResults", NoArticlesText(arguments.topic[2]))
          /\ UNCHANGED <<all_articles, built>>
       \/ /\ all_articles /= <<>>
          /\ all_articles' = Truncate(all_articles, num_articles)
          /\ built' = all_articles'
          /\ Returns("ok", ReportText(arguments.topic[2]))

(***************************************************************************)
(* _search_and_summarize_news                                              *)
(***************************************************************************)
SummaryResponses == {Window(1, l) : l \in 0..MaxSumItems}

\* the entries one response adds to all_news_data
NewsData(keyword, data) ==
    [idx \in 1..Len(data) |->
        [id |-> <<keyword, idx>>, keyword |-> keyword,
         title |-> _clean_html_tags(data[idx]),
         link |-> <<"link of ", data[idx]>>]]

_search_and_summarize_news ==
    /\ pc = "search_and_summarize_news"
    /\ EnsureSession
    /\ UNCHANGED <<config, aside, name, arguments, gets, pending, completions, searches,
                   params, reportLocals, all_news_data>>
    /\ \/ /\ ~CredentialsOk
          /\ Returns("MissingCredentials", CredentialsText)
          /\ UNCHANGED <<num_articles, keywords, qi>>
       \/ /\ CredentialsOk
          /\ Falsy(claude_client)
          /\ Returns("MissingLLMKey", ClaudeKeyText)
          /\ UNCHANGED <<num_articles, keywords, qi>>
       \/ /\ CredentialsOk
          /\ ~Falsy(claude_client)
          /\ num_articles' = Clamp(Bound(arguments.num_articles, 5), 1, 10)
          /\ keywords' = Take(arguments.keywords[2], 5)
          /\ qi' = 1
          /\ pc' = "summary_loop"
          /\ UNCHANGED ret

_search_and_summarize_news_get ==
    /\ pc = "summary_loop"
    /\ qi <= Len(keywords)
    /\ UNCHANGED <<config, aside, session, name, arguments, ret, completions, searches,
                   params, num_articles, qi, reportLocals, summaryLocals>>
    /\ Get([query |-> keywords[qi], display |-> num_articles, start |-> 1,
            sort |-> "date"])
    /\ pc' = "summary_await"

_search_and_summarize_news_response ==
    /\ pc = "summary_await"
    /\ pending' = FALSE
    /\ UNCHANGED <<config, aside, session, name, arguments, gets, completions, searches,
                   params, num_articles, reportLocals, keywords>>
    /\ \/ \* response.status != 200
          /\ qi' = qi + 1 /\ pc' = "summary_loop"
          /\ UNCHANGED <<ret, all_news_data>>
       \/ \* except aiohttp.ClientError: logged, continue
          /\ qi' = qi + 1 /\ pc' = "summary_loop"
          /\ UNCHANGED <<ret, all_news_data>>
       \/ /\ \E e \in UncaughtErrors : Raises(e)
          /\ UNCHANGED <<qi, all_news_data>>
       \/ \E data \in SummaryResponses :
             /\ all_news_data' = all_news_data \o NewsData(keywords[qi], data)
             /\ qi' = qi + 1 /\ pc' = "summary_loop"
             /\ UNCHANGED ret

\* NoNews that never holds: the summary is asked for whatever was collected
NoNewsNever(news) == FALSE

\* "if not all_news_data"
NoNews(news) == news = <<>>

\* after the loop: no news, or the completion request of _summarize_with_claude
_search_and_summarize_news_finish ==
    /\ pc = "summary_loop"
    /\ qi > Len(keywords)
    /\ UNCHANGED <<config, aside, session, name, arguments, gets, searches, params,
                   num_articles, qi, reportLocals, summaryLocals>>
    /\ \/ /\ NoNews(all_news_data)
          /\ Returns("NoResults", NoNewsText)
          /\ UNCHANGED <<completions, pending>>
       \/ /\ ~NoNews(all_news_data)
          /\ completions' = completions + 1
          /\ pending' = TRUE
          /\ pc' = "summary_llm"
          /\ UNCHANGED ret

\* claude_client.messages.create returns or raises
_summarize_with_claude ==
    /\ pc = "summary_llm"
    /\ pending' = FALSE
    /\ UNCHANGED <<config, aside, session, name, arguments, gets, completions, searches,
                   params, num_articles, qi, reportLocals, summaryLocals>>
    /\ \/ Returns("ok", SummaryText(all_news_data))
       \/ Returns("LLMFailure", SummaryErrorText("APIError"))

(***************************************************************************)
(* The invocation's response is delivered                                  *)
(***************************************************************************)
Return ==
    /\ pc = "done"
    /\ pc' = "idle"
    /\ name' = None /\ arguments' = NoArguments /\ result' = <<>> /\ outcome' = "none"
    /\ gets' = <<>> /\ pending' = FALSE /\ completions' = 0 /\ searches' = <<>>
    /\ params' = NoParams
    /\ search_queries' = <<>> /\ num_articles' = 0 /\ all_articles' = <<>>
    /\ seen_titles' = {} /\ qi' = 0 /\ items' = <<>> /\ ii' = 0 /\ built' = <<>>
    /\ firstSeen' = {} /\ anyItems' = FALSE
    /\ keywords' = <<>> /\ all_news_data' = <<>>
    /\ UNCHANGED <<config, aside, session>>

Next ==
    \/ \E n \in ToolNames \cup {"unknown_tool"} :
          \E a \in ArgumentsOf(n) : handle_call_tool(n, a)
    \/ _get_category_news
    \/ _search_news
    \/ _search_news_response
    \/ _generate_news_report
    \/ _generate_news_report_get
    \/ _generate_news_report_response
    \/ _generate_news_report_item
    \/ _generate_news_report_finish
    \/ _search_and_summarize_news
    \/ _search_and_summarize_news_get
    \/ _search_and_summarize_news_response
    \/ _search_and_summarize_news_finish
    \/ _summarize_with_claude
    \/ Return

Spec == Init /\ [][Next]_vars

(***************************************************************************)
(* _clean_html_tags on its own: a text is cleaned, and the result cleaned  *)
(* again                                                                   *)
(***************************************************************************)
\* what the texts given to _clean_html_tags are made of: a tag, the
\* characters of tags and entities, the five entities, and the tails that
\* turn a decoded "&" into an entity again
Pieces ==
    { <<"<", "b", ">">>, <<"<">>, <<">">>, <<"b">>, <<"&">>,
      <<"&", "q", "u", "o", "t", ";">>, <<"&", "a", "m", "p", ";">>,
      <<"&", "l", "t", ";">>, <<"&", "g", "t", ";">>,
      <<"&", "a", "p", "o", "s", ";">>,
      <<"a", "m", "p", ";">>, <<"l", "t", ";">>, <<"q", "u", "o", "t", ";">> }

RECURSIVE Texts(_)
\* the texts of at most n pieces
Texts(n) ==
    IF n = 0 THEN {<<>>}
    ELSE LET T == Texts(n - 1) IN T \cup {t \o p : t \in T, p \in Pieces}

\* everything of the server and of its one running invocation
serving ==
    <<config, session, pc, name, arguments, ret, gets, pending, completions,
      searches, params, num_articles, qi, reportLocals, summaryLocals>>

CleanInit ==
    /\ client_id = None /\ client_secret = None /\ claude_client = None
    /\ session = 0
    /\ pc = "idle"
    /\ Fresh
    /\ NoTasks
    /\ raw \in Texts(MaxPieces)
    /\ given_text = <<>> /\ clean_text = <<>> /\ cleanings = 0

\* a call of _clean_html_tags: on raw, then on what the call before returned
clean_html_tags_call ==
    /\ cleanings < MaxCleanings
    /\ given_text' = IF cleanings = 0 THEN raw ELSE clean_text
    /\ clean_text' = _clean_html_tags(given_text')
    /\ cleanings' = cleanings + 1
    /\ UNCHANGED <<serving, interleaving, raw>>

CleanNext == clean_html_tags_call

CleanSpec == CleanInit /\ [][CleanNext]_vars

(***************************************************************************)
(* Several invocations on one server. The event loop runs one handler      *)
(* until it awaits the network; here the invocations may interleave at     *)
(* every call boundary, which includes every schedule the event loop has.  *)
(* _ensure_session has no await in it: its test and its assignment are     *)
(* one step. An invocation is reduced to what touches the session: its     *)
(* tool, and the number of GETs it still has to issue.                     *)
(***************************************************************************)
\* the searches an invocation makes once its handler has passed its checks
TaskQueries(n) ==
    CASE n \in {"search_news", "get_category_news"} -> {1}
      [] n = "generate_news_report" -> 1..MaxTaskQueries
      [] n = "search_and_summarize_news" -> 0..MaxTaskQueries
      [] OTHER -> {0}

\* handle_call_tool of invocation t, up to the entry of a handler that
\* searches: an unknown name, arguments that do not bind, list_categories and
\* an unknown category end the invocation at once
task_call_tool(t, n, category, binds, k) ==
    /\ tasks[t].pc = "idle"
    /\ IF \/ n \notin SearchingTools
          \/ ~binds
          \/ (n = "get_category_news" /\ category \notin DOMAIN NEWS_CATEGORIES)
       THEN tasks' = [tasks EXCEPT ![t] = [pc |-> "done", name |-> n, left |-> 0]]
       ELSE tasks' = [tasks EXCEPT ![t] = [pc |-> "entered", name |-> n, left |-> k]]
    /\ UNCHANGED <<serving, cleaning, used>>

\* the handler's first lines: await self._ensure_session(), then its checks
task_ensure_session(t) ==
    /\ tasks[t].pc = "entered"
    /\ EnsureSession
    /\ IF \/ ~CredentialsOk
          \/ (tasks[t].name = "search_and_summarize_news" /\ Falsy(claude_client))
       THEN tasks' = [tasks EXCEPT ![t].pc = "done"]
       ELSE tasks' = [tasks EXCEPT ![t].pc = "loop"]
    /\ UNCHANGED <<config, pc, name, arguments, ret, gets, pending, completions,
                   searches, params, num_articles, qi, reportLocals, summaryLocals,
                   cleaning, used>>

\* self.session.get(...): the GET goes out on what self.session is now
task_get(t) ==
    /\ tasks[t].pc = "loop"
    /\ tasks[t].left > 0
    /\ used' = used \cup {session}
    /\ tasks' = [tasks EXCEPT ![t].pc = "await", ![t].left = @ - 1]
    /\ UNCHANGED <<serving, cleaning>>

\* the response arrives, or an exception that ends the invocation
task_response(t) ==
    /\ tasks[t].pc = "await"
    /\ \/ tasks' = [tasks EXCEPT ![t].pc = "loop"]
       \/ tasks' = [tasks EXCEPT ![t].pc = "done"]
    /\ UNCHANGED <<serving, cleaning, used>>

\* after the last GET: the handler formats its result
task_finish(t) ==
    /\ tasks[t].pc = "loop"
    /\ tasks[t].left = 0
    /\ tasks' = [tasks EXCEPT ![t].pc = "done"]
    /\ UNCHANGED <<serving, cleaning, used>>

\* the response of invocation t is delivered
task_return(t) ==
    /\ tasks[t].pc = "done"
    /\ tasks' = [tasks EXCEPT ![t] = IdleTask]
    /\ UNCHANGED <<serving, cleaning, used>>

InterleavedNext ==
    \E t \in Tasks :
        \/ \E n \in ToolNames \cup {"unknown_tool"}, c \in {"tech", "weather"},
              b \in BOOLEAN :
              \E k \in TaskQueries(n) : task_call_tool(t, n, c, b, k)
        \/ task_ensure_session(t)
        \/ task_get(t)
        \/ task_response(t)
        \/ task_finish(t)
        \/ task_return(t)

Interleaved == Init /\ [][InterleavedNext]_vars

(***************************************************************************)
(* Properties                                                              *)
(***************************************************************************)
Labels ==
    {"idle", "done", "get_category_news", "search_news", "search_await",
     "generate_news_report", "report_loop", "report_await", "report_items",
     "search_and_summarize_news", "summary_loop", "summary_await", "summary_llm"}

\* a running handler is at a step it can take: its loop indexes are inside
\* the lists they index, and what it waits for is in flight
CanStep ==
    /\ pc = "get_category_news" => arguments.category[1]
    /\ pc \in {"search_await", "report_await", "summary_await", "summary_llm"} =>
          pending
    /\ pc = "search_await" => Len(gets) = 1
    /\ pc = "report_loop" => qi \in 1..(Len(search_queries) + 1)
    /\ pc = "report_await" => (qi \in 1..Len(search_queries) /\ Len(gets) = qi)
    /\ pc = "report_items" =>
          (qi \in 1..Len(search_queries) /\ ii \in 1..Len(items))
    /\ pc = "summary_loop" => qi \in 1..(Len(keywords) + 1)
    /\ pc = "summary_await" => (qi \in 1..Len(keywords) /\ Len(gets) = qi)
    /\ pc = "summary_llm" => completions = 1

IsTextItems(r) == Len(r) >= 1 /\ \A i \in 1..Len(r) : r[i].type = "text"
IsOneText(r) == Len(r) = 1 /\ r[1].type = "text"
Finished == pc = "done"
CredentialsAbsent == Falsy(client_id) \/ Falsy(client_secret)

\* C1: whatever the tool name, the arguments and the upstream outcomes,
\* handle_call_tool ends by returning a list of text items: no exception
\* leaves it, a running handler is always at a step it can take and sends at
\* most one GET per query; for a name that is no known tool the list is one
\* text item starting with "Error: " and nothing was sent out.
C1_DispatcherAlwaysReturnsText ==
    /\ pc \in Labels
    /\ CanStep
    /\ Len(gets) <= 5 /\ completions <= 1
    /\ Finished => IsTextItems(result)
    /\ (Finished /\ name \notin ToolNames) =>
          /\ IsOneText(result)
          /\ StartsWith(result[1].text, "Error: ")
          /\ gets = <<>> /\ completions = 0

C1_Witness ==
    /\ Finished
    /\ name = "unknown_tool"
    /\ result = <<TextContent(<<"Error: ", "Unknown tool: ">>)>>
    /\ gets = <<>>

\* C2 as stated: every invocation that ends in an error returns one text
\* item whose text starts with "Error: ".
C2_ErrorsCarryErrorPrefix ==
    (Finished /\ outcome /= "ok") =>
        (IsOneText(result) /\ StartsWith(result[1].text, "Error: "))

\* C2 amended: every invocation that ends in an error returns one text item;
\* its text starts with "Error: " exactly when the error reached
\* handle_call_tool as an exception, and is the handler's own message, without
\* that prefix, when the handler detected the error itself.
C2_ErrorsAreOneText ==
    (Finished /\ outcome /= "ok") =>
        /\ IsOneText(result)
        /\ StartsWith(result[1].text, "Error: ") <=> (outcome = "Raised")
        /\ outcome = "MissingCredentials" =>
              StartsWith(result[1].text,
                  "oryu: neibeo API jagyeok jeungmyeong-i seoljeongdoeji anasseumnida. ")
        /\ outcome = "UpstreamStatus" =>
              StartsWith(result[1].text, "API oryu (sangtae kodeu: ")
        /\ outcome = "ClientError" => StartsWith(result[1].text, "neteuwokeu oryu: ")

C2_Witness ==
    /\ Finished
    /\ outcome = "ClientError"
    /\ name = "search_news"
    /\ result = <<TextContent(<<"neteuwokeu oryu: ", "ClientError">>)>>

\* C3 as stated: with the search credentials absent a searching tool returns
\* an error text and no GET is ever issued; with the LLM client absent
\* search_and_summarize_news returns the missing-LLM-key text and sends
\* neither a GET nor a completion request.
C3_CredentialCheckFirst ==
    /\ (CredentialsAbsent /\ name \in SearchingTools) => gets = <<>>
    /\ (Finished /\ CredentialsAbsent /\ name \in SearchingTools) =>
          (IsOneText(result) /\ outcome /= "ok")
    /\ (name = "search_and_summarize_news" /\ Falsy(claude_client)) =>
          (gets = <<>> /\ completions = 0)
    /\ (Finished /\ name = "search_and_summarize_news" /\ Binds(name, arguments)
          /\ Falsy(claude_client)) =>
          result = <<TextContent(ClaudeKeyText)>>

\* C3 amended: as stated, except that search_and_summarize_news returns the
\* missing-LLM-key text only when the search credentials are present; when
\* they are absent too it returns the missing-credentials text.
C3_CredentialCheckFirstInOrder ==
    /\ (CredentialsAbsent /\ name \in SearchingTools) => gets = <<>>
    /\ (Finished /\ CredentialsAbsent /\ name \in SearchingTools) =>
          (IsOneText(result) /\ outcome /= "ok")
    /\ (name = "search_and_summarize_news" /\ Falsy(claude_client)) =>
          (gets = <<>> /\ completions = 0)
    /\ (Finished /\ name = "search_and_summarize_news" /\ Binds(name, arguments)
          /\ Falsy(claude_client)) =>
          result = <<TextContent(IF CredentialsAbsent THEN CredentialsText
                                 ELSE ClaudeKeyText)>>

C3_Witness ==
    /\ Finished
    /\ name = "search_and_summarize_news"
    /\ ~CredentialsAbsent /\ Falsy(claude_client)
    /\ arguments.keywords = Given(<<"AI", "chip">>)
    /\ result = <<TextContent(ClaudeKeyText)>>
    /\ gets = <<>> /\ completions = 0

\* C4: every search GET carries display in 1..100, start in 1..1000 and sort
\* in {sim, date}, whatever integers and sort the caller gave; a sort that is
\* neither is sent as sim.
C4_GetParametersInRange ==
    /\ \A i \in 1..Len(gets) :
          /\ gets[i].display \in 1..100
          /\ gets[i].start \in 1..1000
          /\ gets[i].sort \in {"sim", "date"}
    /\ (gets /= <<>> /\ name \in {"search_news", "get_category_news"}
          /\ arguments.sort[1] /\ arguments.sort[2] \notin {"sim", "date"}) =>
          gets[1].sort = "sim"

C4_Witness ==
    /\ name = "search_news"
    /\ arguments.display = Given(101)
    /\ arguments.start = Given(1001)
    /\ arguments.sort = Given("rank")
    /\ Len(gets) = 1
    /\ gets[1].display = 100 /\ gets[1].start = 1000 /\ gets[1].sort = "sim"

Titles(articles) == {articles[i].title : i \in 1..Len(articles)}
NoRepeatedTitle(articles) ==
    \A i, j \in 1..Len(articles) :
        i /= j => articles[i].title /= articles[j].title

\* C5: at every point of the aggregation loop and in the articles handed to
\* the report, no two collected articles have the same cleaned title.
C5_TitlesUnique ==
    /\ NoRepeatedTitle(all_articles)
    /\ NoRepeatedTitle(built)
    /\ Titles(all_articles) = seen_titles \/ (Finished /\ outcome = "ok")

\* the loop is past an item whose cleaned title an earlier item of the same
\* response had, and past a response that repeats a title of an earlier one
C5_Witness ==
    /\ pc = "report_items"
    /\ qi = 3 /\ ii = 2
    /\ items[1] = <<"<", "b", ">", "B", "<", "/", "b", ">">>
    /\ Len(all_articles) = 4
    /\ all_articles[1].title = <<"A">>
    /\ all_articles[2].title = <<"B">>
    /\ Len(gets) = 3

Before(f, g) == f[2] < g[2] \/ (f[2] = g[2] /\ f[3] < g[3])

RECURSIVE InOrder(_)
\* the occurrences of S by query index, then by position in the response
InOrder(S) ==
    IF S = {} THEN <<>>
    ELSE LET f == CHOOSE f \in S : \A g \in S \ {f} : Before(f, g)
         IN  <<f>> \o InOrder(S \ {f})

\* the titles in first-seen order, each with the query that first brought it
FirstSeenArticles ==
    LET order == InOrder(firstSeen)
    IN  [i \in 1..Len(order) |->
            [title |-> order[i][1], search_query |-> search_queries[order[i][2]]]]

\* C6: between two queries and after the last one, the accumulated articles
\* are the distinct titles of the successful responses in first-seen order
\* (by query position, then by position in the response), each attributed to
\* the first query whose response contained it.
C6_FirstSeenOrderAndAttribution ==
    (name = "generate_news_report" /\ pc = "report_loop") =>
        all_articles = FirstSeenArticles

C6_Witness ==
    /\ name = "generate_news_report"
    /\ pc = "report_loop"
    /\ qi > Len(search_queries)
    /\ Len(search_queries) = 3
    /\ all_articles =
          << [title |-> <<"B">>, search_query |-> "AI"],
             [title |-> <<"C">>, search_query |-> "AI"],
             [title |-> <<"A">>, search_query |-> "chip"],
             [title |-> <<"E">>, search_query |-> "AI"] >>

\* C7: the articles handed to the report are the first
\* min(num_articles, U) articles of the first-seen sequence, U being the
\* number of distinct titles collected and num_articles the caller's value
\* clamped to 5..50.
C7_TruncatedToTargetCount ==
    (Finished /\ name = "generate_news_report" /\ outcome = "ok") =>
        LET U == Cardinality(firstSeen)
            n == Clamp(Bound(arguments.num_articles, 15), 5, 50)
        IN  /\ built = SubSeq(FirstSeenArticles, 1, IF n < U THEN n ELSE U)
            /\ Len(built) <= n
            /\ U >= n => Len(built) = n

C7_Witness ==
    /\ Finished /\ name = "generate_news_report" /\ outcome = "ok"
    /\ arguments.num_articles = Given(-1)
    /\ Cardinality(firstSeen) = 6
    /\ Len(built) = 5

\* C8 as stated: a failing query does not abort the aggregation: once the
\* handler has built its query list, it ends having issued one GET per query,
\* and with every title of the successful responses collected.
C8_FailedQueryIsSkipped ==
    (Finished /\ name = "generate_news_report" /\ search_queries /= <<>>) =>
        /\ Len(gets) = Len(search_queries)
        /\ seen_titles = {f[1] : f \in firstSeen}

\* C9 as stated: the report handler ends with the no-results outcome exactly
\* when no query succeeded with a non-empty item list, and with a report
\* whenever one did.
C9_NoResultsOnlyWhenNothingFound ==
    (Finished /\ name = "generate_news_report" /\ search_queries /= <<>>) =>
        /\ (outcome = "NoResults") <=> ~anyItems
        /\ anyItems => outcome = "ok"

\* C10: get_category_news with a category of the registry makes exactly one
\* search, for the category's first seed keyword and, when the caller gives no
\* sort, by date (the request that goes out when the credentials are
\* configured carries the same query and sort); with any other category it
\* returns the unknown-category text, searches nothing and sends nothing.
C10_CategorySearch ==
    (Finished /\ name = "get_category_news" /\ Binds(name, arguments)) =>
        LET category == arguments.category[2] IN
        IF category \in DOMAIN NEWS_CATEGORIES
        THEN /\ Len(searches) = 1
             /\ searches[1].query = NEWS_CATEGORIES[category][1]
             /\ ~arguments.sort[1] => searches[1].sort = "date"
             /\ Len(gets) = (IF CredentialsAbsent THEN 0 ELSE 1)
             /\ \A i \in 1..Len(gets) :
                   /\ gets[i].query = NEWS_CATEGORIES[category][1]
                   /\ ~arguments.sort[1] => gets[i].sort = "date"
        ELSE /\ outcome = "UnknownCategory"
             /\ IsOneText(result)
             /\ StartsWith(result[1].text, "oryu: al su eomneun kategori '")
             /\ searches = <<>> /\ gets = <<>> /\ completions = 0

C10_Witness ==
    /\ Finished /\ name = "get_category_news"
    /\ arguments.category = Given("tech")
    /\ ~arguments.sort[1]
    /\ Len(gets) = 1
    /\ gets[1].query = "IT" /\ gets[1].sort = "date"

HasTag(s) == \E i \in 1..Len(s) : s[i] = "<" /\ FirstGt(s, i + 1) > i + 1
Entities ==
    { << <<"&", "q", "u", "o", "t", ";">>, "\"" >>,
      << <<"&", "a", "m", "p", ";">>, "&" >>,
      << <<"&", "l", "t", ";">>, "<" >>,
      << <<"&", "g", "t", ";">>, ">" >>,
      << <<"&", "a", "p", "o", "s", ";">>, "'" >> }
EntityAt(s, i) ==
    {e \in Entities :
        i + Len(e[1]) - 1 <= Len(s) /\ SubSeq(s, i, i + Len(e[1]) - 1) = e[1]}
HasEntity(s) == \E i \in 1..Len(s) : EntityAt(s, i) /= {}
HasAmpersand(s) == \E i \in 1..Len(s) : s[i] = "&"

\* C11 as stated: cleaning the result of a cleaning returns it unchanged,
\* whatever the text first cleaned.
C11_CleaningIdempotent ==
    cleanings >= 2 => clean_text = given_text

\* C11 amended: cleaning returns unchanged every text that holds no tag and
\* none of the five entities, and cleaning the result of a cleaning returns it
\* unchanged when the text first cleaned holds no "&".
C11_CleaningIdempotentWithoutEntities ==
    /\ (cleanings >= 1 /\ ~HasTag(given_text) /\ ~HasEntity(given_text)) =>
          clean_text = given_text
    /\ (cleanings >= 2 /\ ~HasAmpersand(raw)) => clean_text = given_text

C11_Witness ==
    /\ cleanings = 2
    /\ raw = <<"<", "b", ">", "b", ">">>
    /\ given_text = <<"b", ">">>
    /\ clean_text = <<"b", ">">>

RECURSIVE DecodeOnce(_)
\* every entity of s replaced by its character in one pass from the left:
\* what a replacement produces is never read again
DecodeOnce(s) ==
    IF s = <<>> THEN <<>>
    ELSE IF EntityAt(s, 1) /= {}
         THEN LET e == CHOOSE e \in EntityAt(s, 1) : TRUE
              IN  <<e[2]>> \o DecodeOnce(SubSeq(s, Len(e[1]) + 1, Len(s)))
         ELSE <<s[1]>> \o DecodeOnce(Tail(s))

\* C12 as stated: a call of _clean_html_tags returns its argument without
\* its tags and with each entity decoded once: an "&" that comes from "&amp;"
\* starts no further entity.
C12_EntitiesDecodedOnce ==
    cleanings >= 1 => clean_text = DecodeOnce(StripTags(given_text))

\* C13: however the invocations interleave, the session is made at most
\* once and every GET goes out on it: self.session changes only from None to
\* the first session, and only in the step in which the handler of a tool
\* that searches runs _ensure_session; list_categories, an unknown tool,
\* arguments that do not bind and get_category_news with an unknown category
\* never reach that step.
C13_SessionCreatedOnceAndShared ==
    /\ [](session \in {0, 1} /\ used \subseteq {1})
    /\ [][session' /= session =>
             /\ session = 0 /\ session' = 1
             /\ \E t \in Tasks :
                   /\ tasks[t].pc = "entered"
                   /\ tasks[t].name \in SearchingTools
                   /\ tasks'[t].pc \in {"loop", "done"}]_vars

\* two invocations have both run _ensure_session and both have a GET in
\* flight on the one session
C13_Witness ==
    /\ tasks[1].pc = "await" /\ tasks[1].name = "generate_news_report"
    /\ tasks[2].pc = "await" /\ tasks[2].name = "search_news"
    /\ session = 1 /\ used = {1}

\* C14 as stated: generate_news_report with valid credentials issues one GET
\* per entry of its query list, in list order and never twice for an entry,
\* each only when no other is in flight, and it ends having issued the GET of
\* every entry, whatever the earlier ones collected.
C14_OneGetPerQueryInOrder ==
    (name = "generate_news_report" /\ search_queries /= <<>>) =>
        /\ Len(gets) <= Len(search_queries)
        /\ \A i \in 1..Len(gets) : gets[i].query = search_queries[i]
        /\ pc = "report_loop" => (~pending /\ Len(gets) = qi - 1)
        /\ pending => (pc = "report_await" /\ Len(gets) = qi)
        /\ Finished => Len(gets) = Len(search_queries)

Min(a, b) == IF a < b THEN a ELSE b
Max(a, b) == IF a > b THEN a ELSE b

\* C15: the query list of generate_news_report is the topic followed by the
\* first 3 of the caller's extra keywords at most (1 to 4 queries), and every
\* GET carries display = min(100, max(5, targetCount div numQueries)),
\* targetCount being num_articles clamped to 5..50; display is in 5..50.
C15_QueryListAndDisplay ==
    (name = "generate_news_report" /\ search_queries /= <<>>) =>
        LET kw == arguments.keywords[2]
            numQueries == Len(search_queries)
            targetCount == Max(5, Min(Bound(arguments.num_articles, 15), 50))
        IN  /\ numQueries = 1 + Min(3, Len(kw))
            /\ numQueries \in 1..4
            /\ search_queries[1] = arguments.topic[2]
            /\ \A i \in 2..numQueries : search_queries[i] = kw[i - 1]
            /\ \A i \in 1..Len(gets) :
                  /\ gets[i].display = Min(100, Max(5, targetCount \div numQueries))
                  /\ gets[i].display \in 5..50

\* four extra keywords given: the fourth is dropped, and 50 articles over 4
\* queries make 12 per query
C15_Witness ==
    /\ name = "generate_news_report" /\ Finished
    /\ Len(arguments.keywords[2]) = 4
    /\ arguments.num_articles = Given(101)
    /\ search_queries = <<"AI", "chip", "AI", "robot">>
    /\ Len(gets) = 4
    /\ \A i \in 1..4 : gets[i].display = 12

\* the items of news under keyword k, in their order in news
ItemsOf(news, k) == SelectSeq(news, LAMBDA item : item.keyword = k)

RECURSIVE GroupedFrom(_, _)
\* for each item from position i on that is the first of its keyword: the
\* heading of the keyword, then the links of all its items, then a blank line
GroupedFrom(news, i) ==
    IF i > Len(news) THEN <<>>
    ELSE (IF \E j \in 1..(i - 1) : news[j].keyword = news[i].keyword
          THEN <<>>
          ELSE <<HeadingLine(news[i].keyword)>>
               \o [n \in 1..Len(ItemsOf(news, news[i].keyword)) |->
                      LinkLine(ItemsOf(news, news[i].keyword)[n])]
               \o <<BlankLine>>)
         \o GroupedFrom(news, i + 1)

\* C16: the links section of the summary report has one group per keyword,
\* in the order in which the keywords first occur among the items; a group
\* lists the items of its keyword in their input order, so that every item
\* has exactly one line, under its own keyword.
C16_LinksGroupedByKeyword ==
    (Finished /\ name = "search_and_summarize_news" /\ outcome = "ok") =>
        LET lines == result[1].text[3]
        IN  /\ lines = GroupedFrom(all_news_data, 1)
            /\ Cardinality({i \in 1..Len(lines) : lines[i][1] = "- ["}) =
                  Len(all_news_data)

\* the keyword "AI" was searched, then "chip", then "AI" again: the items
\* of the second "AI" search are listed in the first group, before "chip"
C16_Witness ==
    /\ Finished /\ name = "search_and_summarize_news" /\ outcome = "ok"
    /\ keywords = <<"AI", "chip", "AI">>
    /\ Len(all_news_data) = 4
    /\ all_news_data[2].title = <<"A">>
    /\ all_news_data[3].keyword = "chip"
    /\ all_news_data[4].keyword = "AI"
    /\ Len(result[1].text[3]) = 8
    /\ result[1].text[3][3] = LinkLine(all_news_data[2])
    /\ result[1].text[3][4] = LinkLine(all_news_data[4])
    /\ result[1].text[3][6] = HeadingLine("chip")

\* C17: an invocation sends at most one completion request; it is sent by
\* search_and_summarize_news only, after the GET of every keyword has been
\* issued and has finished, and only with at least one news item collected;
\* when the request fails the invocation ends with the one text of the
\* summary error, which is no "Error: " text of an exception, and no second
\* request is sent.
C17_AtMostOneCompletion ==
    /\ completions <= 1
    /\ completions >= 1 =>
          /\ name = "search_and_summarize_news"
          /\ qi = Len(keywords) + 1
          /\ Len(gets) = Len(keywords)
          /\ all_news_data /= <<>>
          /\ pending => pc = "summary_llm"
    /\ pc \in {"summary_loop", "summary_await"} => completions = 0
    /\ (Finished /\ completions = 1) => outcome \in {"ok", "LLMFailure"}
    /\ (Finished /\ outcome = "LLMFailure") =>
          /\ completions = 1
          /\ IsOneText(result)
          /\ StartsWith(result[1].text,
                 "yoyak saengseong jung oryuga balsaenghaesseumnida: ")

\* three keywords were searched, then the one completion request failed
C17_Witness ==
    /\ Finished /\ name = "search_and_summarize_news"
    /\ outcome = "LLMFailure"
    /\ Len(keywords) = 3 /\ Len(gets) = 3
    /\ all_news_data /= <<>>
    /\ completions = 1
    /\ result = <<TextContent(SummaryErrorText("APIError"))>>

====
